---- MODULE Spec2Model ----
(***************************************************************************)
(* A model of ipfs-webdav: the metadata cache (src/src/cache.rs), the      *)
(* filesystem adapter PeerFs and the open file PeerFsFile (src/src/fs.rs)  *)
(* and the path helpers of the backend BaseApi (src/src/api.rs).           *)
(*                                                                         *)
(* A path is a sequence of characters, each character a one-letter string, *)
(* so that "/a/b" is << "/", "a", "/", "b" >> and the string operations of  *)
(* the code (ends_with, pop, push, starts_with, replace) are computed on   *)
(* characters as the code computes them.                                   *)
(*                                                                         *)
(* The SystemTime fields crtime and mtime of nodes, entries and files are  *)
(* values that are stored and copied and never read by a decision; they    *)
(* are left out of the records below.                                      *)
(***************************************************************************)
EXTENDS Integers, Sequences, FiniteSets, TLC

VARIABLES cache, files, last, threads, store

vars == << cache, files, last, threads, store >>

(***************************************************************************)
(* Bounds of the model.                                                    *)
(***************************************************************************)
\* the largest number of entries the cache is let to hold
MaxEntries == 2
\* the largest length, in characters, of a cache key
MaxKeyLen == 4
\* the largest file size a backend entry reports
MaxSize == 1

(***************************************************************************)
(* Strings.                                                                *)
(***************************************************************************)
Slash == "/"

Root == << Slash >>

\* str::ends_with("/")
ends_with_slash(s) == Len(s) > 0 /\ s[Len(s)] = Slash

\* String::pop, on a non-empty string
pop(s) == SubSeq(s, 1, Len(s) - 1)

\* str::starts_with
starts_with(s, p) == Len(p) <= Len(s) /\ SubSeq(s, 1, Len(p)) = p

\* str::replace: every non-overlapping match of the pattern, left to right,
\* is replaced; the empty pattern matches before every character and at the end
RECURSIVE replace(_, _, _)
replace(s, from, to) ==
  IF from = << >>
    THEN IF s = << >> THEN to
         ELSE to \o << Head(s) >> \o replace(Tail(s), from, to)
  ELSE IF Len(s) < Len(from) THEN s
  ELSE IF starts_with(s, from)
    THEN to \o replace(SubSeq(s, Len(from) + 1, Len(s)), from, to)
  ELSE << Head(s) >> \o replace(Tail(s), from, to)

\* cache.rs normalize_hash: one trailing slash is popped, from the root too
normalize_hash(hash) == IF ends_with_slash(hash) THEN pop(hash) ELSE hash

\* cache.rs add_slash
add_slash(hash) == IF ~ends_with_slash(hash) THEN Append(hash, Slash) ELSE hash

\* api.rs normalize_path: one trailing slash is popped, except from "/"
normalize_path(path) ==
  IF Len(path) > 1 /\ ends_with_slash(path) THEN pop(path) ELSE path

(***************************************************************************)
(* Paths of the model: names of one letter, and one name of two letters    *)
(* that has a one-letter name as a proper prefix.                          *)
(***************************************************************************)
Names == { << "a" >>, << "b" >> }

LongNames == { << "a", "b" >> }

Depth1(names) == { Root \o n : n \in names }

Depth2(names) == { p \o << Slash >> \o n : p \in Depth1(names), n \in names }

\* what path_to_string gives the adapter: "/" or a path with no trailing slash
FsPaths == { Root } \cup Depth1(Names) \cup Depth2(Names)

\* what the cache is called with
CachePaths ==
  FsPaths \cup Depth1(LongNames) \cup { add_slash(p) : p \in Depth1(Names) }

(***************************************************************************)
(* Nodes (fs.rs PeerNode).                                                 *)
(***************************************************************************)
NoProps == << >>

DirNode(props) == [ tag |-> "Dir", props |-> props ]

FileNode(props, size) == [ tag |-> "File", props |-> props, size |-> size ]

is_dir(node) == node.tag = "Dir"

Nodes == { DirNode(NoProps) } \cup { FileNode(NoProps, n) : n \in 0 .. MaxSize }

(***************************************************************************)
(* The cache (cache.rs): a map from key to node behind one mutex.          *)
(***************************************************************************)
map_insert(m, k, v) == [ x \in (DOMAIN m) \cup { k } |-> IF x = k THEN v ELSE m[x] ]

map_remove(m, k) == [ x \in (DOMAIN m) \ { k } |-> m[x] ]

EmptyMap == << >>

contains(c, hash) == normalize_hash(hash) \in DOMAIN c

\* Cache::get: [ok |-> TRUE, node] or NotFound
get(c, hash) ==
  LET h == normalize_hash(hash)
  IN IF h \in DOMAIN c THEN [ ok |-> TRUE, node |-> c[h] ]
     ELSE [ ok |-> FALSE, err |-> "NotFound" ]

insert(c, hash, node) == map_insert(c, normalize_hash(hash), node)

remove(c, hash) == map_remove(c, normalize_hash(hash))

\* the filter of mv_vals and cp_vals
in_subtree_loose(k, from) == starts_with(k, from)

in_subtree(k, from) == k = from \/ starts_with(k, add_slash(from))

\* the keys of the clone that pass the filter
selected(c, hfrom) == { k \in DOMAIN c : in_subtree(k, normalize_hash(hfrom)) }

\* the orders in which a HashMap's iterator may yield the selected keys
Orders(S) ==
  { o \in [ 1 .. Cardinality(S) -> S ] :
      \A i, j \in 1 .. Cardinality(S) : i # j => o[i] # o[j] }

\* the body of mv_vals' for_each
mv_step(c, k, from, to) ==
  IF k \in DOMAIN c
    THEN map_insert(map_remove(c, k), replace(k, from, to), c[k])
    ELSE c

RECURSIVE mv_fold(_, _, _, _)
mv_fold(c, order, from, to) ==
  IF order = << >> THEN c
  ELSE mv_fold(mv_step(c, Head(order), from, to), Tail(order), from, to)

mv_vals(c, hfrom, hto, order) ==
  mv_fold(c, order, normalize_hash(hfrom), normalize_hash(hto))

\* the body of cp_vals' for_each
cp_step(c, k, from, to) ==
  IF k \in DOMAIN c
    THEN map_insert(c, replace(k, from, to), c[k])
    ELSE c

RECURSIVE cp_fold(_, _, _, _)
cp_fold(c, order, from, to) ==
  IF order = << >> THEN c
  ELSE cp_fold(cp_step(c, Head(order), from, to), Tail(order), from, to)

cp_vals(c, hfrom, hto, order) ==
  cp_fold(c, order, normalize_hash(hfrom), normalize_hash(hto))

\* the model's bound on a cache
Bounded(c) ==
  /\ Cardinality(DOMAIN c) <= MaxEntries
  /\ \A k \in DOMAIN c : Len(k) <= MaxKeyLen

(***************************************************************************)
(* Calls.  An operation runs as one action, from its call to its result;   *)
(* `last` holds the call, the state it ran in and what it gave back, until *)
(* the caller takes the result (Return).  One call is recorded at a time.  *)
(***************************************************************************)
NoCall == [ op |-> "none" ]

\* the open files the callers hold, by holder
Handles == { "h1", "h2" }

NoFile == [ path |-> << >> ]

Idle == last = NoCall

\* the lengths of the files the backend holds, by path, where the model
\* follows them: none to begin with
NoStore == << >>

\* the threads that call the cache at the same time
Threads == { "t1", "t2" }

\* a thread that is in no call of the cache
IdleThread == [ pc |-> "idle" ]

\* the caller takes the result of the recorded call
Return ==
  /\ ~Idle
  /\ last' = NoCall
  /\ UNCHANGED << cache, files, threads, store >>

(***************************************************************************)
(* The cache's operations as actions.                                      *)
(***************************************************************************)
CacheInsert ==
  /\ Idle
  /\ \E h \in CachePaths, n \in Nodes :
        /\ Bounded(insert(cache, h, n))
        /\ cache' = insert(cache, h, n)
        /\ last' = [ op |-> "insert", hash |-> h, node |-> n, pre |-> cache ]
        /\ UNCHANGED << files, threads, store >>

CacheRemove ==
  /\ Idle
  /\ \E h \in CachePaths :
        /\ cache' = remove(cache, h)
        /\ last' = [ op |-> "remove", hash |-> h, pre |-> cache ]
        /\ UNCHANGED << files, threads, store >>

CacheMvVals ==
  /\ Idle
  /\ \E from \in CachePaths, to \in CachePaths :
        \E order \in Orders(selected(cache, from)) :
          /\ Bounded(mv_vals(cache, from, to, order))
          /\ cache' = mv_vals(cache, from, to, order)
          /\ last' = [ op |-> "mv_vals", from |-> from, to |-> to, pre |-> cache ]
          /\ UNCHANGED << files, threads, store >>

CacheCpVals ==
  /\ Idle
  /\ \E from \in CachePaths, to \in CachePaths :
        \E order \in Orders(selected(cache, from)) :
          /\ Bounded(cp_vals(cache, from, to, order))
          /\ cache' = cp_vals(cache, from, to, order)
          /\ last' = [ op |-> "cp_vals", from |-> from, to |-> to, pre |-> cache ]
          /\ UNCHANGED << files, threads, store >>

Init ==
  /\ cache = EmptyMap
  /\ files = [ h \in Handles |-> NoFile ]
  /\ last = NoCall
  /\ threads = [ t \in Threads |-> IdleThread ]
  /\ store = NoStore

NextCache == CacheInsert \/ CacheRemove \/ CacheMvVals \/ CacheCpVals \/ Return

SpecCache == Init /\ [][NextCache]_vars

(***************************************************************************)
(* Concurrent calls of the cache.  Every operation of the cache takes the  *)
(* cache's one Mutex after it has normalized its arguments and holds the   *)
(* guard to the end of the function; mv_vals and cp_vals re-key one        *)
(* selected key at a time while they hold it.                              *)
(***************************************************************************)
\* the paths the concurrent calls are made with
LockPaths == Depth1(Names) \cup { << Slash, "a", Slash, "b" >> }

\* the calls of the cache a thread may make
CacheCalls ==
  { [ fn |-> f, hash |-> h ] : f \in { "contains", "get", "remove" }, h \in LockPaths }
  \cup { [ fn |-> "insert", hash |-> h, node |-> n ] : h \in LockPaths, n \in Nodes }
  \cup { [ fn |-> f, from |-> a, to |-> b ] :
           f \in { "mv_vals", "cp_vals" }, a \in LockPaths, b \in LockPaths }

\* contains and get only read the map
is_read(call) == call.fn \in { "contains", "get" }

\* the thread holds the guard of the mutex
inside(t) == threads[t].pc = "inside"

\* a lock that lets every thread in
can_lock_unguarded(t) == TRUE

\* Mutex::lock returns when no other thread holds the guard
can_lock(t) == \A u \in Threads \ { t } : ~inside(u)

\* the keys a call works on once it holds the guard, in one of the orders
\* it may take them in
Worklists(c, call) ==
  IF call.fn \in { "mv_vals", "cp_vals" }
    THEN Orders(selected(c, call.from))
    ELSE { << normalize_hash(call.hash) >> }

\* what a call does to the map with one key
cache_step(c, call, k) ==
  CASE call.fn = "insert" -> map_insert(c, k, call.node)
    [] call.fn = "remove" -> map_remove(c, k)
    [] call.fn = "mv_vals" ->
         mv_step(c, k, normalize_hash(call.from), normalize_hash(call.to))
    [] call.fn = "cp_vals" ->
         cp_step(c, k, normalize_hash(call.from), normalize_hash(call.to))
    [] OTHER -> c

RECURSIVE cache_steps(_, _, _)
cache_steps(c, call, order) ==
  IF order = << >> THEN c
  ELSE cache_steps(cache_step(c, call, Head(order)), call, Tail(order))

\* a thread calls the cache
ThreadCall ==
  /\ Idle
  /\ \E t \in Threads, call \in CacheCalls :
       /\ threads[t].pc = "idle"
       /\ threads' = [ threads EXCEPT ![t] = [ pc |-> "lock", call |-> call ] ]
  /\ UNCHANGED << cache, files, last, store >>

\* the thread gets the guard
ThreadLock ==
  /\ Idle
  /\ \E t \in Threads :
       /\ threads[t].pc = "lock"
       /\ can_lock(t)
       /\ \E order \in Worklists(cache, threads[t].call) :
            /\ Bounded(cache_steps(cache, threads[t].call, order))
            /\ threads' = [ threads EXCEPT ![t] =
                              [ pc |-> "inside", call |-> threads[t].call,
                                order |-> order, todo |-> order ] ]
  /\ UNCHANGED << cache, files, last, store >>

\* the thread, holding the guard, reads or writes the next key
ThreadStep ==
  /\ Idle
  /\ \E t \in Threads :
       /\ inside(t)
       /\ threads[t].todo # << >>
       /\ cache' = cache_step(cache, threads[t].call, Head(threads[t].todo))
       /\ threads' = [ threads EXCEPT ![t].todo = Tail(threads[t].todo) ]
  /\ UNCHANGED << files, last, store >>

\* the function returns and the guard is dropped
ThreadUnlock ==
  /\ Idle
  /\ \E t \in Threads :
       /\ inside(t)
       /\ threads[t].todo = << >>
       /\ threads' = [ threads EXCEPT ![t] = IdleThread ]
  /\ UNCHANGED << cache, files, last, store >>

NextLock == ThreadCall \/ ThreadLock \/ ThreadStep \/ ThreadUnlock

SpecLock == Init /\ [][NextLock]_vars

(***************************************************************************)
(* The backend (api.rs): BaseApi turns the answers of the IPFS node into   *)
(* PeerEntry values.  What the node answers is an input of each call.      *)
(***************************************************************************)
\* the largest number of entries one listing returns
MaxList == 2

Failed == [ ok |-> FALSE ]

\* FilesEntry of a listing: typ 1 is a directory
FilesEntries == [ name : Names, typ : { 0, 1 }, size : 0 .. MaxSize ]

\* the listings of a directory: its entries have different names
Listings ==
  { l \in UNION { [ 1 .. n -> FilesEntries ] : n \in 0 .. MaxList } :
      \A i, j \in DOMAIN l : i # j => l[i].name # l[j].name }

LsAnswers == { Failed } \cup { [ ok |-> TRUE, entries |-> l ] : l \in Listings }

StatAnswers ==
  { Failed } \cup
  { [ ok |-> TRUE, typ |-> t, size |-> n ] :
      t \in { "directory", "file" }, n \in 0 .. MaxSize }

UnitAnswers == { Failed, [ ok |-> TRUE ] }

\* api.rs concat_path: Path::join
concat_path(p1, p2) ==
  IF starts_with(p2, << Slash >>) THEN p2
  ELSE (IF ends_with_slash(p1) THEN p1 ELSE Append(p1, Slash)) \o p2

from_entry(path, e) == [ path |-> path, is_dir |-> e.typ = 1, size |-> e.size ]

from_stat(path, st) ==
  [ path |-> path, is_dir |-> st.typ = "directory", size |-> st.size ]

new_dir(path) == [ path |-> path, is_dir |-> TRUE, size |-> 0 ]

\* BaseApi::ls
api_ls(path, answer) ==
  IF answer.ok
    THEN [ ok |-> TRUE,
           entries |->
             [ i \in DOMAIN answer.entries |->
                 from_entry(concat_path(normalize_path(path), answer.entries[i].name),
                            answer.entries[i]) ] ]
    ELSE Failed

\* BaseApi::stat
api_stat(path, answer) ==
  IF answer.ok
    THEN [ ok |-> TRUE, entry |-> from_stat(normalize_path(path), answer) ]
    ELSE Failed

\* BaseApi::mkdir
api_mkdir(path, answer) ==
  IF answer.ok
    THEN [ ok |-> TRUE, entry |-> new_dir(normalize_path(path)) ]
    ELSE Failed

\* a call of the backend, as the adapter makes it
Call(fn, path) == [ fn |-> fn, path |-> path ]

Call2(fn, path, dest) == [ fn |-> fn, path |-> path, dest |-> dest ]

(***************************************************************************)
(* Node conversions and path helpers of fs.rs.                             *)
(***************************************************************************)
from_api_entry(entry) ==
  IF entry.is_dir THEN DirNode(NoProps) ELSE FileNode(NoProps, entry.size)

RECURSIVE trim_slashes(_)
trim_slashes(s) == IF ends_with_slash(s) THEN trim_slashes(pop(s)) ELSE s

RECURSIVE last_component(_)
last_component(s) ==
  IF s = << >> \/ ends_with_slash(s) THEN << >>
  ELSE Append(last_component(pop(s)), s[Len(s)])

\* Path::file_name, with the "/" that to_entry gives a path that has none
file_name(path) ==
  IF trim_slashes(path) = << >> THEN Root
  ELSE last_component(trim_slashes(path))

to_entry(node, path) ==
  [ name |-> file_name(path),
    is_dir |-> is_dir(node),
    size |-> IF is_dir(node) THEN 0 ELSE node.size ]

\* Path::parent is None for the root
has_parent(path) == trim_slashes(path) # << >>

\* parent_path, for a path that has a parent
parent_path(path) ==
  LET t == trim_slashes(path)
      dir == SubSeq(t, 1, Len(t) - Len(last_component(t)))
  IN IF trim_slashes(dir) = << >> THEN dir ELSE trim_slashes(dir)

(***************************************************************************)
(* PeerFs (fs.rs).                                                         *)
(***************************************************************************)
OpenOptions ==
  [ read : BOOLEAN, write : BOOLEAN, create : BOOLEAN,
    create_new : BOOLEAN, append : BOOLEAN, truncate : BOOLEAN ]

PeerFsFile(path, size, options) ==
  [ path |-> path, pos |-> 0, size |-> size,
    append |-> options.append, truncate |-> options.truncate ]

do_open_dir_first(c, path, options) ==
  LET found == get(c, path)
  IN IF found.ok
       THEN IF is_dir(found.node) THEN [ res |-> "Forbidden" ]
            ELSE IF options.create_new THEN [ res |-> "Exists" ]
            ELSE [ res |-> "Ok", file |-> PeerFsFile(path, found.node.size, options) ]
     ELSE IF ~options.create THEN [ res |-> "NotFound" ]
     ELSE [ res |-> "Ok", file |-> PeerFsFile(path, 0, options) ]

do_open_size_zero(c, path, options) ==
  LET found == get(c, path)
  IN IF found.ok
       THEN IF options.create_new THEN [ res |-> "Exists" ]
            ELSE IF is_dir(found.node) THEN [ res |-> "Forbidden" ]
            ELSE [ res |-> "Ok", file |-> PeerFsFile(path, 0, options) ]
     ELSE IF ~options.create THEN [ res |-> "NotFound" ]
     ELSE [ res |-> "Ok", file |-> PeerFsFile(path, 0, options) ]

\* PeerFs::do_open
do_open(c, path, options) ==
  LET found == get(c, path)
  IN IF found.ok
       THEN IF options.create_new THEN [ res |-> "Exists" ]
            ELSE IF is_dir(found.node) THEN [ res |-> "Forbidden" ]
            ELSE [ res |-> "Ok", file |-> PeerFsFile(path, found.node.size, options) ]
     ELSE IF ~options.create THEN [ res |-> "NotFound" ]
     ELSE [ res |-> "Ok", file |-> PeerFsFile(path, 0, options) ]

open_in(paths) ==
  /\ Idle
  /\ \E path \in paths, options \in OpenOptions :
       /\ last' = [ op |-> "open", path |-> path, options |-> options,
                    pre |-> cache, calls |-> << >>,
                    out |-> do_open(cache, path, options) ]
       /\ UNCHANGED << cache, files, threads, store >>

open == open_in(FsPaths)

\* the loop of read_dir over the entries of a listing: the views, the cache
RECURSIVE read_dir_loop(_, _, _)
read_dir_loop(c, entries, v) ==
  IF entries = << >> THEN [ cache |-> c, v |-> v ]
  ELSE LET entry == Head(entries)
           node == from_api_entry(entry)
       IN read_dir_loop(insert(c, entry.path, node), Tail(entries),
                        Append(v, to_entry(node, entry.path)))

read_dir_cached(c, path, listed) ==
  IF contains(c, path) THEN [ cache |-> c, v |-> << >> ]
  ELSE IF listed.ok THEN read_dir_loop(c, listed.entries, << >>)
  ELSE [ cache |-> c, v |-> << >> ]

\* the body of read_dir once ls has answered
read_dir_body(c, path, listed) ==
  IF listed.ok THEN read_dir_loop(c, listed.entries, << >>)
  ELSE [ cache |-> c, v |-> << >> ]

read_dir_in(paths) ==
  /\ Idle
  /\ \E path \in paths, answer \in LsAnswers :
       LET listed == api_ls(path, answer)
           done == read_dir_body(cache, path, listed)
       IN /\ Bounded(done.cache)
          /\ cache' = done.cache
          /\ last' = [ op |-> "read_dir", path |-> path, pre |-> cache,
                       calls |-> << Call("ls", path) >>, answer |-> listed,
                       out |-> [ res |-> "Ok", v |-> done.v ] ]
          /\ UNCHANGED << files, threads, store >>

read_dir == read_dir_in(FsPaths)

metadata_always_stats(c, path, answer) ==
  LET stat == api_stat(path, answer)
      c1 == IF stat.ok THEN insert(c, path, from_api_entry(stat.entry)) ELSE c
      found == get(c1, path)
  IN [ cache |-> c1,
       calls |-> << Call("stat", path) >>,
       out |-> IF found.ok
                 THEN [ res |-> "Ok", entry |-> to_entry(found.node, path) ]
                 ELSE [ res |-> found.err ] ]

\* PeerFs::metadata, given what stat answers if it is called
metadata_body(c, path, answer) ==
  LET miss == ~contains(c, path)
      stat == api_stat(path, answer)
      c1 == IF miss /\ stat.ok
              THEN insert(c, path, from_api_entry(stat.entry)) ELSE c
      found == get(c1, path)
  IN [ cache |-> c1,
       calls |-> IF miss THEN << Call("stat", path) >> ELSE << >>,
       out |-> IF found.ok
                 THEN [ res |-> "Ok", entry |-> to_entry(found.node, path) ]
                 ELSE [ res |-> found.err ] ]

metadata_in(paths) ==
  /\ Idle
  /\ \E path \in paths, answer \in StatAnswers :
       LET done == metadata_body(cache, path, answer)
       IN /\ Bounded(done.cache)
          /\ cache' = done.cache
          /\ last' = [ op |-> "metadata", path |-> path, pre |-> cache,
                       calls |-> done.calls,
                       answer |-> IF done.calls = << >> THEN Failed
                                  ELSE api_stat(path, answer),
                       out |-> done.out ]
          /\ UNCHANGED << files, threads, store >>

metadata == metadata_in(FsPaths)

create_dir_skips_parent(c, path, answer) ==
  LET made == api_mkdir(path, answer)
  IN IF get(c, path).ok
       THEN [ cache |-> c, calls |-> << >>, out |-> [ res |-> "Exists" ] ]
     ELSE [ cache |-> IF made.ok THEN insert(c, path, from_api_entry(made.entry))
                      ELSE c,
            calls |-> << Call("mkdir", path) >>,
            out |-> [ res |-> "Ok" ] ]

create_dir_strict(c, path, answer) ==
  LET made == api_mkdir(path, answer)
  IN IF get(c, path).ok
       THEN [ cache |-> c, calls |-> << >>, out |-> [ res |-> "Exists" ] ]
     ELSE IF ~has_parent(path)
       THEN [ cache |-> c, calls |-> << >>, out |-> [ res |-> "Panic" ] ]
     ELSE IF parent_path(path) # Root /\ ~get(c, parent_path(path)).ok
       THEN [ cache |-> c, calls |-> << >>, out |-> [ res |-> "NotFound" ] ]
     ELSE IF parent_path(path) # Root /\ ~is_dir(get(c, parent_path(path)).node)
       THEN [ cache |-> c, calls |-> << >>, out |-> [ res |-> "Forbidden" ] ]
     ELSE [ cache |-> IF made.ok THEN insert(c, path, from_api_entry(made.entry))
                      ELSE c,
            calls |-> << Call("mkdir", path) >>,
            out |-> [ res |-> IF made.ok THEN "Ok" ELSE "GeneralFailure" ] ]

\* PeerFs::create_dir, given what mkdir answers if it is called; the unwrap
\* of parent_path panics on the root
create_dir_body(c, path, answer) ==
  LET made == api_mkdir(path, answer)
  IN IF get(c, path).ok
       THEN [ cache |-> c, calls |-> << >>, out |-> [ res |-> "Exists" ] ]
     ELSE IF ~has_parent(path)
       THEN [ cache |-> c, calls |-> << >>, out |-> [ res |-> "Panic" ] ]
     ELSE IF parent_path(path) # Root /\ ~get(c, parent_path(path)).ok
       THEN [ cache |-> c, calls |-> << >>, out |-> [ res |-> "NotFound" ] ]
     ELSE IF parent_path(path) # Root /\ ~is_dir(get(c, parent_path(path)).node)
       THEN [ cache |-> c, calls |-> << >>, out |-> [ res |-> "Forbidden" ] ]
     ELSE [ cache |-> IF made.ok THEN insert(c, path, from_api_entry(made.entry))
                      ELSE c,
            calls |-> << Call("mkdir", path) >>,
            out |-> [ res |-> "Ok" ] ]

create_dir_in(paths) ==
  /\ Idle
  /\ \E path \in paths, answer \in UnitAnswers :
       LET done == create_dir_body(cache, path, answer)
       IN /\ Bounded(done.cache)
          /\ cache' = done.cache
          /\ last' = [ op |-> "create_dir", path |-> path, pre |-> cache,
                       calls |-> done.calls,
                       answer |-> IF done.calls = << >> THEN Failed
                                  ELSE api_mkdir(path, answer),
                       out |-> done.out ]
          /\ UNCHANGED << files, threads, store >>

create_dir == create_dir_in(FsPaths)

\* a remove that drops the cached descendants too
remove_subtree(c, path, answer) ==
  IF answer.ok
    THEN [ k \in { x \in DOMAIN c : ~in_subtree(x, normalize_hash(path)) } |-> c[k] ]
    ELSE c

\* the body of remove_dir and of remove_file once rm has answered
remove_body(c, path, answer) == IF answer.ok THEN remove(c, path) ELSE c

remove_dir_in(paths) ==
  /\ Idle
  /\ \E path \in paths, answer \in UnitAnswers :
       /\ cache' = remove_body(cache, path, answer)
       /\ last' = [ op |-> "remove_dir", path |-> path, pre |-> cache,
                    calls |-> << Call("rm", path) >>, answer |-> answer,
                    out |-> [ res |-> "Ok" ] ]
       /\ UNCHANGED << files, threads, store >>

remove_dir == remove_dir_in(FsPaths)

remove_file_in(paths) ==
  /\ Idle
  /\ \E path \in paths, answer \in UnitAnswers :
       /\ cache' = remove_body(cache, path, answer)
       /\ last' = [ op |-> "remove_file", path |-> path, pre |-> cache,
                    calls |-> << Call("rm", path) >>, answer |-> answer,
                    out |-> [ res |-> "Ok" ] ]
       /\ UNCHANGED << files, threads, store >>

remove_file == remove_file_in(FsPaths)

\* the body of rename once mv has answered
rename_body(c, from, to, answer, order) ==
  IF answer.ok THEN mv_vals(c, from, to, order) ELSE c

rename_in(paths) ==
  /\ Idle
  /\ \E from \in paths, to \in paths, answer \in UnitAnswers :
       \E order \in Orders(selected(cache, from)) :
         /\ Bounded(rename_body(cache, from, to, answer, order))
         /\ cache' = rename_body(cache, from, to, answer, order)
         /\ last' = [ op |-> "rename", from |-> from, to |-> to, pre |-> cache,
                      calls |-> << Call2("mv", from, to) >>, answer |-> answer,
                      out |-> [ res |-> "Ok" ] ]
         /\ UNCHANGED << files, threads, store >>

rename == rename_in(FsPaths)

\* the body of copy once cp has answered
copy_body(c, from, to, answer, order) ==
  IF answer.ok THEN cp_vals(c, from, to, order) ELSE c

copy_in(paths) ==
  /\ Idle
  /\ \E from \in paths, to \in paths, answer \in UnitAnswers :
       \E order \in Orders(selected(cache, from)) :
         /\ Bounded(copy_body(cache, from, to, answer, order))
         /\ cache' = copy_body(cache, from, to, answer, order)
         /\ last' = [ op |-> "copy", from |-> from, to |-> to, pre |-> cache,
                      calls |-> << Call2("cp", from, to) >>, answer |-> answer,
                      out |-> [ res |-> "Ok" ] ]
         /\ UNCHANGED << files, threads, store >>

copy == copy_in(FsPaths)

Next ==
  \/ open \/ read_dir \/ metadata \/ create_dir
  \/ remove_dir \/ remove_file \/ rename \/ copy \/ Return

Spec == Init /\ [][Next]_vars

(***************************************************************************)
(* PeerFsFile (fs.rs): an open file, held by a caller.                     *)
(***************************************************************************)
\* the largest position and size an open file is let to reach
MaxOffset == 2
\* the largest number of blocks of one chunked write
MaxChunks == 2

\* the paths the files are opened on
FilePaths == Depth1(Names)

Held == { h \in Handles : files[h] # NoFile }

\* the caller keeps the file that open returned
KeepAs(handles) ==
  /\ last.op = "open"
  /\ last.out.res = "Ok"
  /\ \E h \in handles :
       /\ files[h] = NoFile
       /\ files' = [ files EXCEPT ![h] = last.out.file ]
  /\ last' = NoCall
  /\ UNCHANGED << cache, threads, store >>

\* one caller holds at most one file
Keep == KeepAs({ "h1" })

\* the caller drops a file; nothing is flushed
Drop ==
  /\ Idle
  /\ \E h \in Held : files' = [ files EXCEPT ![h] = NoFile ]
  /\ UNCHANGED << cache, last, threads, store >>

WriteCall(path, offset, truncate, len) ==
  [ fn |-> "write", path |-> path, offset |-> offset,
    truncate |-> truncate, len |-> len ]

do_write_grows_only(file, len) ==
  LET pos == IF file.append THEN file.size ELSE file.pos
      size == IF pos + len > file.size THEN pos + len ELSE file.size
  IN [ file |-> [ file EXCEPT !.pos = pos + len, !.size = size, !.truncate = FALSE ],
       call |-> WriteCall(file.path, pos, file.truncate, len) ]

\* a write that leaves truncate as it was
do_write_keeps_truncate(file, len) ==
  LET pos == IF file.append THEN file.size ELSE file.pos
      size == pos + len
  IN [ file |-> [ file EXCEPT !.pos = size, !.size = size ],
       call |-> WriteCall(file.path, pos, file.truncate, len) ]

\* PeerFsFile::do_write of a block of len bytes: the file afterwards and the
\* backend call made; the answer of the backend is dropped
do_write(file, len) ==
  LET pos == IF file.append THEN file.size ELSE file.pos
      size == pos + len
  IN [ file |-> [ file EXCEPT !.pos = size, !.size = size, !.truncate = FALSE ],
       call |-> WriteCall(file.path, pos, file.truncate, len) ]

\* the loop of write_buf over the blocks of a buffer: the file after each
\* block and the calls made
RECURSIVE write_buf_loop(_, _, _, _)
write_buf_loop(file, chunks, trail, calls) ==
  IF chunks = << >> THEN [ file |-> file, trail |-> trail, calls |-> calls ]
  ELSE LET w == do_write(file, Head(chunks))
       IN write_buf_loop(w.file, Tail(chunks),
                         Append(trail, w.file), Append(calls, w.call))

\* the buffers of a chunked write, as the lengths of their blocks: a block
\* of a buffer with bytes remaining is not empty
Buffers ==
  UNION { [ 1 .. n -> 1 .. MaxOffset ] : n \in 0 .. MaxChunks }

FileBounded(file) == file.pos <= MaxOffset /\ file.size <= MaxOffset

write_bytes ==
  /\ Idle
  /\ \E h \in Held, len \in 0 .. MaxOffset, answer \in UnitAnswers :
       LET w == do_write(files[h], len)
       IN /\ FileBounded(w.file)
          /\ files' = [ files EXCEPT ![h] = w.file ]
          /\ last' = [ op |-> "write_bytes", h |-> h, before |-> files[h],
                       pre |-> cache, chunks |-> << len >>,
                       calls |-> << w.call >>, answers |-> << answer >>,
                       trail |-> << w.file >>, out |-> [ res |-> "Ok" ] ]
          /\ UNCHANGED << cache, threads, store >>

write_buf ==
  /\ Idle
  /\ \E h \in Held, chunks \in Buffers :
       \E answers \in [ DOMAIN chunks -> UnitAnswers ] :
         LET w == write_buf_loop(files[h], chunks, << >>, << >>)
         IN /\ FileBounded(w.file)
            /\ files' = [ files EXCEPT ![h] = w.file ]
            /\ last' = [ op |-> "write_buf", h |-> h, before |-> files[h],
                         pre |-> cache, chunks |-> chunks,
                         calls |-> w.calls, answers |-> answers,
                         trail |-> w.trail, out |-> [ res |-> "Ok" ] ]
            /\ UNCHANGED << cache, threads, store >>

\* what the backend answers a read of count bytes: a failure, or at most
\* count bytes
ReadAnswers(count) == { Failed } \cup { [ ok |-> TRUE, len |-> n ] : n \in 0 .. count }

\* a read that advances by the bytes the backend returned
read_bytes_by_returned(file, count, answer) ==
  [ file |-> [ file EXCEPT !.pos = file.pos + (IF answer.ok THEN answer.len ELSE 0) ],
    call |-> [ fn |-> "read", path |-> file.path,
               offset |-> file.pos, count |-> count ],
    out |-> IF answer.ok THEN [ res |-> "Ok", len |-> answer.len ]
            ELSE [ res |-> "GeneralFailure" ] ]

\* PeerFsFile::read_bytes once the backend has answered: the backend call
\* made, the file afterwards and the result
read_bytes_body(file, count, answer) ==
  [ file |-> [ file EXCEPT !.pos = file.pos + count ],
    call |-> [ fn |-> "read", path |-> file.path,
               offset |-> file.pos, count |-> count ],
    out |-> IF answer.ok THEN [ res |-> "Ok", len |-> answer.len ]
            ELSE [ res |-> "GeneralFailure" ] ]

\* PeerFsFile::read_bytes
read_bytes ==
  /\ Idle
  /\ \E h \in Held, count \in 0 .. MaxOffset :
       \E answer \in ReadAnswers(count) :
         LET done == read_bytes_body(files[h], count, answer)
         IN /\ files[h].pos + count <= MaxOffset
            /\ files' = [ files EXCEPT ![h] = done.file ]
            /\ last' = [ op |-> "read_bytes", h |-> h, before |-> files[h],
                         pre |-> cache, count |-> count,
                         calls |-> << done.call >>,
                         answer |-> answer, out |-> done.out ]
            /\ UNCHANGED << cache, threads, store >>

\* SeekFrom
SeekFroms ==
  { [ from |-> "Start", pos |-> n ] : n \in 0 .. MaxOffset } \cup
  { [ from |-> w, pos |-> n ] :
      w \in { "Current", "End" }, n \in -MaxOffset .. MaxOffset }

\* a seek that stops at the start of the file instead of failing
seek_saturating(file, pos) ==
  LET start == IF pos.from = "Start" THEN 0
               ELSE IF pos.from = "Current" THEN file.pos ELSE file.size
      target == IF start + pos.pos < 0 THEN 0 ELSE start + pos.pos
  IN [ file |-> [ file EXCEPT !.pos = target ],
       out |-> [ res |-> "Ok", pos |-> target ] ]

\* PeerFsFile::seek: the file afterwards and the result
seek_body(file, pos) ==
  IF pos.from = "Start"
    THEN [ file |-> [ file EXCEPT !.pos = pos.pos ],
           out |-> [ res |-> "Ok", pos |-> pos.pos ] ]
  ELSE LET start == IF pos.from = "Current" THEN file.pos ELSE file.size
           offset == pos.pos
       IN IF offset < 0
            THEN IF -offset > start
                   THEN [ file |-> file, out |-> [ res |-> "InvalidInput" ] ]
                   ELSE [ file |-> [ file EXCEPT !.pos = start - (-offset) ],
                          out |-> [ res |-> "Ok", pos |-> start - (-offset) ] ]
            ELSE [ file |-> [ file EXCEPT !.pos = start + offset ],
                   out |-> [ res |-> "Ok", pos |-> start + offset ] ]

seek ==
  /\ Idle
  /\ \E h \in Held, pos \in SeekFroms :
       LET done == seek_body(files[h], pos)
       IN /\ FileBounded(done.file)
          /\ files' = [ files EXCEPT ![h] = done.file ]
          /\ last' = [ op |-> "seek", h |-> h, before |-> files[h],
                       pre |-> cache, pos |-> pos, calls |-> << >>,
                       out |-> done.out ]
          /\ UNCHANGED << cache, threads, store >>

from_fs_file(file) == FileNode(NoProps, file.size)

\* a flush that leaves a node that is already cached
flush_keeps_cached(c, file, answer) ==
  [ cache |-> IF answer.ok /\ ~contains(c, file.path)
                THEN insert(c, file.path, from_fs_file(file)) ELSE c,
    out |-> [ res |-> "Ok" ] ]

\* a flush that never lowers the cached size
flush_keeps_larger(c, file, answer) ==
  LET found == get(c, file.path)
      size == IF found.ok /\ ~is_dir(found.node) /\ found.node.size > file.size
                THEN found.node.size ELSE file.size
  IN [ cache |-> IF answer.ok THEN insert(c, file.path, FileNode(NoProps, size))
                 ELSE c,
       out |-> [ res |-> "Ok" ] ]

\* the body of PeerFsFile::flush once the backend has answered
flush_body(c, file, answer) ==
  [ cache |-> IF answer.ok THEN insert(c, file.path, from_fs_file(file)) ELSE c,
    out |-> [ res |-> "Ok" ] ]

flush ==
  /\ Idle
  /\ \E h \in Held, answer \in UnitAnswers :
       LET done == flush_body(cache, files[h], answer)
       IN /\ Bounded(done.cache)
          /\ cache' = done.cache
          /\ last' = [ op |-> "flush", h |-> h, before |-> files[h],
                       pre |-> cache,
                       calls |-> << Call("flush", files[h].path) >>,
                       answer |-> answer, out |-> done.out ]
          /\ UNCHANGED << files, threads, store >>

\* a metadata that answers with the file's own size
file_metadata_own_size(c, file) ==
  [ res |-> "Ok",
    entry |-> to_entry(FileNode(NoProps, file.size), file.path) ]

\* PeerFsFile::metadata: the view of the node cached for the file's path
file_metadata_body(c, file) ==
  LET found == get(c, file.path)
  IN IF found.ok
       THEN [ res |-> "Ok", entry |-> to_entry(found.node, file.path) ]
       ELSE [ res |-> found.err ]

\* PeerFsFile::metadata
file_metadata ==
  /\ Idle
  /\ \E h \in Held :
       /\ last' = [ op |-> "file_metadata", h |-> h, before |-> files[h],
                    pre |-> cache, calls |-> << >>,
                    out |-> file_metadata_body(cache, files[h]) ]
       /\ UNCHANGED << cache, files, threads, store >>

\* the adapter and the open files, on FilePaths
NextFile ==
  \/ open_in(FilePaths) \/ Keep \/ Drop \/ Return
  \/ write_bytes \/ write_buf \/ read_bytes \/ seek \/ flush \/ file_metadata
  \/ metadata_in(FilePaths) \/ create_dir_in(FilePaths)
  \/ remove_dir_in(FilePaths) \/ remove_file_in(FilePaths)
  \/ rename_in(FilePaths) \/ copy_in(FilePaths)

SpecFile == Init /\ [][NextFile]_vars

(***************************************************************************)
(* Two open files on one path: each PeerFsFile owns its pos and size and   *)
(* shares only the cache and the backend with the other.                   *)
(***************************************************************************)
\* the path both files are opened on
SharedPaths == { << Slash, "a" >> }

KeepBoth == KeepAs(Handles)

NextShared ==
  \/ open_in(SharedPaths) \/ KeepBoth \/ Drop \/ Return
  \/ write_bytes \/ read_bytes \/ seek \/ flush \/ file_metadata
  \/ metadata_in(SharedPaths) \/ remove_file_in(SharedPaths)

SpecShared == Init /\ [][NextShared]_vars

(***************************************************************************)
(* Dead properties (fs.rs patch_props, get_prop): kept in the cached node. *)
(***************************************************************************)
\* the largest number of changes in one patch
MaxPatch == 2

\* Option<String>: None is the empty sequence, Some(s) is << s >>
NoNamespace == << >>

Namespaces == { NoNamespace, << << "n" >> >> }

PropNames == { << "p" >> }

\* Option<Vec<u8>>
NoXml == "none"

XmlValues == { "x", "y" }

\* DavProp; its prefix is stored and copied and never read by a decision
DavProps ==
  { [ name |-> n, namespace |-> ns, xml |-> x ] :
      n \in PropNames, ns \in Namespaces, x \in XmlValues }

\* fs.rs prop_key: the namespace, or "" for None, followed by the name
prop_key(ns, name) == (IF ns = NoNamespace THEN << >> ELSE ns[1]) \o name

\* fs.rs clone_prop
clone_prop(p) == [ p EXCEPT !.xml = NoXml ]

\* Vec<(bool, DavProp)>
Patches ==
  UNION { [ 1 .. n -> [ set : BOOLEAN, prop : DavProps ] ] : n \in 0 .. MaxPatch }

\* a loop that reports NOT_FOUND for the removal of a key that is not set
RECURSIVE patch_loop_remove_checks(_, _, _)
patch_loop_remove_checks(props, patch, res) ==
  IF patch = << >> THEN [ props |-> props, res |-> res ]
  ELSE LET set == Head(patch).set
           p == Head(patch).prop
           key == prop_key(p.namespace, p.name)
           status == IF set \/ key \in DOMAIN props THEN "OK" ELSE "NOT_FOUND"
       IN patch_loop_remove_checks(
            IF set THEN map_insert(props, key, p) ELSE map_remove(props, key),
            Tail(patch),
            Append(res, [ status |-> status, prop |-> clone_prop(p) ]))

\* the loop of patch_props over the changes: the property map and the
\* statuses afterwards
RECURSIVE patch_loop(_, _, _)
patch_loop(props, patch, res) ==
  IF patch = << >> THEN [ props |-> props, res |-> res ]
  ELSE LET set == Head(patch).set
           p == Head(patch).prop
           key == prop_key(p.namespace, p.name)
       IN patch_loop(
            IF set THEN map_insert(props, key, p) ELSE map_remove(props, key),
            Tail(patch),
            Append(res, [ status |-> "OK", prop |-> clone_prop(p) ]))

\* PeerFs::patch_props: the node is read from the cache, changed and
\* written back
patch_props_body(c, path, patch) ==
  LET found == get(c, path)
  IN IF ~found.ok THEN [ cache |-> c, out |-> [ res |-> found.err ] ]
     ELSE LET done == patch_loop(found.node.props, patch, << >>)
              node == [ found.node EXCEPT !.props = done.props ]
          IN [ cache |-> insert(c, path, node),
               out |-> [ res |-> "Ok", v |-> done.res ] ]

patch_props_in(paths) ==
  /\ Idle
  /\ \E path \in paths, patch \in Patches :
       LET done == patch_props_body(cache, path, patch)
       IN /\ cache' = done.cache
          /\ last' = [ op |-> "patch_props", path |-> path, patch |-> patch,
                       pre |-> cache, calls |-> << >>, out |-> done.out ]
          /\ UNCHANGED << files, threads, store >>

\* PeerFs::get_prop
get_prop_body(c, path, prop) ==
  LET found == get(c, path)
      key == prop_key(prop.namespace, prop.name)
  IN IF ~found.ok THEN [ res |-> found.err ]
     ELSE IF key \notin DOMAIN found.node.props THEN [ res |-> "NotFound" ]
     ELSE IF found.node.props[key].xml = NoXml THEN [ res |-> "NotFound" ]
     ELSE [ res |-> "Ok", xml |-> found.node.props[key].xml ]

get_prop_in(paths) ==
  /\ Idle
  /\ \E path \in paths, prop \in { clone_prop(p) : p \in DavProps } :
       /\ last' = [ op |-> "get_prop", path |-> path, prop |-> prop,
                    pre |-> cache, calls |-> << >>,
                    out |-> get_prop_body(cache, path, prop) ]
       /\ UNCHANGED << cache, files, threads, store >>

\* the adapter with dead properties, on FilePaths
NextProps ==
  \/ metadata_in(FilePaths) \/ patch_props_in(FilePaths)
  \/ get_prop_in(FilePaths) \/ remove_file_in(FilePaths) \/ Return

SpecProps == Init /\ [][NextProps]_vars

(***************************************************************************)
(* Dead properties beside the operations that write the node of a cached   *)
(* path again: the listing of its parent and the flush of an open file.    *)
(***************************************************************************)
NextRetain ==
  \/ metadata_in(SharedPaths) \/ patch_props_in(SharedPaths)
  \/ get_prop_in(SharedPaths) \/ read_dir_in({ Root })
  \/ open_in(SharedPaths) \/ Keep \/ flush \/ Return

SpecRetain == Init /\ [][NextRetain]_vars

(***************************************************************************)
(* Concurrent requests on one path.  patch_props takes the cache's lock    *)
(* twice, in get and in insert, and works on its own copy of the node in   *)
(* between; remove_file waits for the backend and then takes the lock in   *)
(* remove.  Each taking of the lock is one step of the thread.             *)
(***************************************************************************)
\* the patches the concurrent requests make: one change each
ThreadPatches == { patch \in Patches : Len(patch) = 1 }

\* no thread is in a request
Quiet == \A t \in Threads : threads[t].pc = "idle"

\* get_metadata while no other request runs
QuietMetadata == Quiet /\ metadata_in(SharedPaths)

\* patch_props up to its cache.get: the thread holds a copy of the node
PatchGet ==
  /\ Idle
  /\ \E t \in Threads, path \in SharedPaths, patch \in ThreadPatches :
       LET found == get(cache, path)
       IN /\ threads[t].pc = "idle"
          /\ threads' = [ threads EXCEPT ![t] =
                            IF found.ok
                              THEN [ pc |-> "got", op |-> "patch_props",
                                     path |-> path, patch |-> patch,
                                     node |-> found.node ]
                              ELSE [ pc |-> "done", op |-> "patch_props",
                                     path |-> path, patch |-> patch,
                                     res |-> found.err ] ]
  /\ UNCHANGED << cache, files, last, store >>

\* patch_props from its loop to its cache.insert of the changed copy
PatchInsert ==
  /\ Idle
  /\ \E t \in Threads :
       /\ threads[t].pc = "got"
       /\ LET done == patch_loop(threads[t].node.props, threads[t].patch, << >>)
              node == [ threads[t].node EXCEPT !.props = done.props ]
          IN /\ cache' = insert(cache, threads[t].path, node)
             /\ threads' = [ threads EXCEPT ![t] =
                               [ pc |-> "done", op |-> "patch_props",
                                 path |-> threads[t].path,
                                 patch |-> threads[t].patch, res |-> "Ok" ] ]
  /\ UNCHANGED << files, last, store >>

\* remove_file up to the answer of the backend's rm
RemoveCall ==
  /\ Idle
  /\ \E t \in Threads, path \in SharedPaths, answer \in UnitAnswers :
       /\ threads[t].pc = "idle"
       /\ threads' = [ threads EXCEPT ![t] =
                         [ pc |-> "rm", op |-> "remove_file",
                           path |-> path, answer |-> answer ] ]
  /\ UNCHANGED << cache, files, last, store >>

\* remove_file after rm has answered
RemoveCache ==
  /\ Idle
  /\ \E t \in Threads :
       /\ threads[t].pc = "rm"
       /\ cache' = remove_body(cache, threads[t].path, threads[t].answer)
       /\ threads' = [ threads EXCEPT ![t].pc = "done" ]
  /\ UNCHANGED << files, last, store >>

\* the requests have finished and their results are taken; a thread makes
\* its next request when every request made beside it has finished
ThreadReturn ==
  /\ Idle
  /\ \A t \in Threads : threads[t].pc \in { "idle", "done" }
  /\ ~Quiet
  /\ threads' = [ t \in Threads |-> IdleThread ]
  /\ UNCHANGED << cache, files, last, store >>

NextPatch ==
  \/ QuietMetadata \/ Return
  \/ PatchGet \/ PatchInsert \/ RemoveCall \/ RemoveCache \/ ThreadReturn

SpecPatch == Init /\ [][NextPatch]_vars

(***************************************************************************)
(* One open file and the file the backend holds for its path.  The backend *)
(* accepts every call; a write at an offset leaves its file as long as the *)
(* offset plus the block, or as long as it was if that is longer and the   *)
(* write does not truncate.                                                *)
(***************************************************************************)
\* the backend's file after a write (FilesWrite with create)
stored_write(st, call) ==
  LET end == call.offset + call.len
      len == IF call.path \notin DOMAIN st \/ call.truncate THEN end
             ELSE IF st[call.path] > end THEN st[call.path] ELSE end
  IN map_insert(st, call.path, len)

\* the backend holds a file before the adapter has seen it
StoreHolds ==
  /\ Idle
  /\ store = NoStore
  /\ cache = EmptyMap
  /\ Held = {}
  /\ \E path \in SharedPaths, n \in 0 .. MaxOffset :
       store' = map_insert(store, path, n)
  /\ UNCHANGED << cache, files, last, threads >>

\* get_metadata, the backend's stat answering with the file it holds
StoreMetadata ==
  /\ Idle
  /\ \E path \in DOMAIN store :
       LET answer == [ ok |-> TRUE, typ |-> "file", size |-> store[path] ]
           done == metadata_body(cache, path, answer)
       IN /\ cache' = done.cache
          /\ last' = [ op |-> "metadata", path |-> path, pre |-> cache,
                       calls |-> done.calls,
                       answer |-> IF done.calls = << >> THEN Failed
                                  ELSE api_stat(path, answer),
                       out |-> done.out ]
  /\ UNCHANGED << files, threads, store >>

\* open of the cached file, by the one caller
StoreOpen ==
  /\ Held = {}
  /\ \A path \in DOMAIN store : contains(cache, path)
  /\ open_in(DOMAIN store)

\* write_bytes, the backend taking the block
StoreWrite ==
  /\ Idle
  /\ \E h \in Held, len \in 0 .. MaxOffset :
       LET w == do_write(files[h], len)
       IN /\ FileBounded(w.file)
          /\ files' = [ files EXCEPT ![h] = w.file ]
          /\ store' = stored_write(store, w.call)
          /\ last' = [ op |-> "write_bytes", h |-> h, before |-> files[h],
                       pre |-> cache, chunks |-> << len >>,
                       calls |-> << w.call >>, answers |-> << [ ok |-> TRUE ] >>,
                       trail |-> << w.file >>, out |-> [ res |-> "Ok" ] ]
  /\ UNCHANGED << cache, threads >>

\* flush, the backend accepting it
StoreFlush ==
  /\ Idle
  /\ \E h \in Held :
       LET answer == [ ok |-> TRUE ]
           done == flush_body(cache, files[h], answer)
       IN /\ cache' = done.cache
          /\ last' = [ op |-> "flush", h |-> h, before |-> files[h],
                       pre |-> cache,
                       calls |-> << Call("flush", files[h].path) >>,
                       answer |-> answer, out |-> done.out ]
  /\ UNCHANGED << files, threads, store >>

NextStore ==
  \/ StoreHolds \/ StoreMetadata \/ StoreOpen \/ Keep \/ Return
  \/ seek \/ StoreWrite \/ StoreFlush

SpecStore == Init /\ [][NextStore]_vars

(***************************************************************************)
(* The two normalizers (cache.rs normalize_hash, api.rs normalize_path) on *)
(* their own.                                                              *)
(***************************************************************************)
\* the largest length of a path handed to the normalizers
MaxPathLen == 6

\* the paths handed to the normalizers: any mix of slashes and letters
NormPaths == UNION { [ 1 .. n -> { Slash, "a" } ] : n \in 1 .. MaxPathLen }

\* both normalizers applied to one path
Normalize ==
  /\ Idle
  /\ \E path \in NormPaths :
       last' = [ op |-> "normalize", path |-> path,
                 hash |-> normalize_hash(path),
                 api |-> normalize_path(path) ]
  /\ UNCHANGED << cache, files, threads, store >>

NextNormalize == Normalize \/ Return

SpecNormalize == Init /\ [][NextNormalize]_vars

(***************************************************************************)
(* Properties of the subtree rewrites.  They are stated on the recorded   *)
(* call: last.pre is the cache the call ran on, cache is what it left.     *)
(***************************************************************************)
\* the key a path argument names: the path without its trailing slash
KeyOf(path) == IF ends_with_slash(path) THEN pop(path) ELSE path

\* k is the key f or a key below it
AtOrUnder(k, f) == k = f \/ starts_with(k, f \o << Slash >>)

\* k, a key at or under f, with its leading f replaced by t
Rebased(k, f, t) == t \o SubSeq(k, Len(f) + 1, Len(k))

MovedCall == last.op = "mv_vals"

CopiedCall == last.op = "cp_vals"

\* C3: after move_values(from, to) with to not at or under from, every key
\* that was at or under from is absent and the key made of to and the key's
\* suffix after the leading from holds the node the key held; the suffix is
\* kept as it was and no moved entry is lost.
C3_MoveRebasesEveryKey ==
  (MovedCall /\ ~AtOrUnder(KeyOf(last.to), KeyOf(last.from))) =>
    LET f == KeyOf(last.from)
        t == KeyOf(last.to)
    IN \A k \in DOMAIN last.pre :
         AtOrUnder(k, f) =>
           /\ k \notin DOMAIN cache
           /\ Rebased(k, f, t) \in DOMAIN cache
           /\ cache[Rebased(k, f, t)] = last.pre[k]

\* C4: move_values(from, to) leaves every key that is neither from nor below
\* it in the cache, with its node unless the node of a moved key was written
\* onto it.
C4_MoveKeepsOtherKeys ==
  MovedCall =>
    LET f == KeyOf(last.from)
    IN \A k \in DOMAIN last.pre :
         ~AtOrUnder(k, f) =>
           /\ k \in DOMAIN cache
           /\ \/ cache[k] = last.pre[k]
              \/ \E m \in DOMAIN last.pre :
                   AtOrUnder(m, f) /\ cache[k] = last.pre[m]

\* a move of a subtree ran beside a key that only shares the letters of from
C4_Witness ==
  /\ MovedCall
  /\ \E k, m \in DOMAIN last.pre :
       /\ ~AtOrUnder(k, KeyOf(last.from))
       /\ starts_with(k, KeyOf(last.from))
       /\ AtOrUnder(m, KeyOf(last.from))
       /\ m \notin DOMAIN cache
       /\ k \in DOMAIN cache

\* C5: after copy_values(from, to) with to not at or under from, every key at
\* or under from keeps its node, the key made of to and the key's suffix holds
\* an equal node, nothing else is added, and either key of such a pair can be
\* removed without the other.
C5_CopyRebasesEveryKey ==
  (CopiedCall /\ ~AtOrUnder(KeyOf(last.to), KeyOf(last.from))) =>
    LET f == KeyOf(last.from)
        t == KeyOf(last.to)
        src == { k \in DOMAIN last.pre : AtOrUnder(k, f) }
    IN /\ \A k \in src :
            /\ k \in DOMAIN cache /\ cache[k] = last.pre[k]
            /\ Rebased(k, f, t) \in DOMAIN cache
            /\ cache[Rebased(k, f, t)] = last.pre[k]
            /\ Rebased(k, f, t) \in DOMAIN remove(cache, k)
            /\ k \in DOMAIN remove(cache, Rebased(k, f, t))
       /\ DOMAIN cache \subseteq
            (DOMAIN last.pre) \cup { Rebased(k, f, t) : k \in src }

(***************************************************************************)
(* Properties of the adapter's calls, stated on the recorded call.         *)
(***************************************************************************)
Cached(c, path) == KeyOf(path) \in DOMAIN c

NodeAt(c, path) == c[KeyOf(path)]

IsFile(node) == node.tag = "File"

IsDirectory(node) == node.tag = "Dir"

Opened == last.op = "open"

\* C1: open is decided from the cache alone, with no backend call and no
\* cache change: cached and create_new fails Exists; not cached and no create
\* fails NotFound; not cached and create gives a file of size 0 at position
\* 0; a cached file without create_new gives position 0 and the cached size.
C1_OpenDecidedFromCache ==
  Opened =>
    LET o == last.options
        hit == Cached(last.pre, last.path)
    IN /\ last.calls = << >>
       /\ cache = last.pre
       /\ (hit /\ o.create_new) => last.out.res = "Exists"
       /\ (~hit /\ ~o.create) => last.out.res = "NotFound"
       /\ (~hit /\ o.create) =>
            /\ last.out.res = "Ok"
            /\ last.out.file.size = 0
            /\ last.out.file.pos = 0
       /\ (hit /\ ~o.create_new /\ IsFile(NodeAt(last.pre, last.path))) =>
            /\ last.out.res = "Ok"
            /\ last.out.file.pos = 0
            /\ last.out.file.size = NodeAt(last.pre, last.path).size

\* a cached file that is not empty was opened
C1_Witness ==
  /\ Opened
  /\ Cached(last.pre, last.path)
  /\ last.out.res = "Ok"
  /\ last.out.file.size > 0

OpenedDirectory ==
  /\ Opened
  /\ Cached(last.pre, last.path)
  /\ IsDirectory(NodeAt(last.pre, last.path))

\* C2 as claimed: open of a path cached as a directory fails Forbidden for
\* every combination of the options.
C2_OpenDirectoryForbidden == OpenedDirectory => last.out.res = "Forbidden"

\* C2: open of a path cached as a directory fails Forbidden for every
\* combination of the options without create_new, and Exists with it.
C2_OpenDirectoryFails ==
  OpenedDirectory =>
    last.out.res = (IF last.options.create_new THEN "Exists" ELSE "Forbidden")

\* a directory was opened for writing, creating, appending and truncating
C2_Witness ==
  /\ OpenedDirectory
  /\ last.options.write /\ last.options.create
  /\ last.options.append /\ last.options.truncate
  /\ last.out.res = "Forbidden"

CreatedDir == last.op = "create_dir"

\* create_directory's own checks let the call through to the backend
ChecksPass(c, path) ==
  /\ ~Cached(c, path)
  /\ has_parent(path)
  /\ \/ parent_path(path) = Root
     \/ /\ Cached(c, parent_path(path))
        /\ IsDirectory(NodeAt(c, parent_path(path)))

\* C6 as claimed: a cached path fails Exists; a parent that is not the root
\* and is cached as a non-directory, or not cached, fails Forbidden; neither
\* calls the backend or changes the cache; a successful make_directory
\* leaves the path cached as a directory.
C6_CreateDirMissingParentForbidden ==
  (CreatedDir /\ has_parent(last.path)) =>
    LET parent == parent_path(last.path)
    IN /\ Cached(last.pre, last.path) =>
            /\ last.out.res = "Exists"
            /\ last.calls = << >> /\ cache = last.pre
       /\ ( /\ ~Cached(last.pre, last.path)
            /\ parent # Root
            /\ \/ ~Cached(last.pre, parent)
               \/ ~IsDirectory(NodeAt(last.pre, parent)) ) =>
            /\ last.out.res = "Forbidden"
            /\ last.calls = << >> /\ cache = last.pre
       /\ (ChecksPass(last.pre, last.path) /\ last.answer.ok) =>
            /\ Cached(cache, last.path)
            /\ IsDirectory(NodeAt(cache, last.path))

\* C6: as claimed, but a parent that is not cached fails NotFound.
C6_CreateDirChecks ==
  CreatedDir =>
    /\ Cached(last.pre, last.path) =>
         /\ last.out.res = "Exists"
         /\ last.calls = << >> /\ cache = last.pre
    /\ ( /\ ~Cached(last.pre, last.path)
         /\ has_parent(last.path)
         /\ parent_path(last.path) # Root
         /\ ~Cached(last.pre, parent_path(last.path)) ) =>
         /\ last.out.res = "NotFound"
         /\ last.calls = << >> /\ cache = last.pre
    /\ ( /\ ~Cached(last.pre, last.path)
         /\ has_parent(last.path)
         /\ parent_path(last.path) # Root
         /\ Cached(last.pre, parent_path(last.path))
         /\ ~IsDirectory(NodeAt(last.pre, parent_path(last.path))) ) =>
         /\ last.out.res = "Forbidden"
         /\ last.calls = << >> /\ cache = last.pre
    /\ (ChecksPass(last.pre, last.path) /\ last.answer.ok) =>
         /\ last.calls = << Call("mkdir", last.path) >>
         /\ Cached(cache, last.path)
         /\ IsDirectory(NodeAt(cache, last.path))

\* a directory was asked for under a parent that is not cached
C6_Witness ==
  /\ CreatedDir
  /\ has_parent(last.path)
  /\ parent_path(last.path) # Root
  /\ ~Cached(last.pre, last.path)
  /\ ~Cached(last.pre, parent_path(last.path))
  /\ last.out.res = "NotFound"

ListedDir == last.op = "read_dir"

\* the node the cache is to hold for an entry of the backend
NodeOfEntry(node, entry) ==
  IF entry.is_dir THEN IsDirectory(node)
  ELSE IsFile(node) /\ node.size = entry.size

\* C8: read_directory calls list once whatever the cache holds; when list
\* succeeds every entry is cached under its own path, as a directory or as a
\* file with the entry's size, and the result has one view per entry; when
\* list fails the call succeeds with no view and the cache is unchanged.
C8_ReadDirCachesEveryEntry ==
  ListedDir =>
    /\ last.calls = << Call("ls", last.path) >>
    /\ last.out.res = "Ok"
    /\ last.answer.ok =>
         /\ Len(last.out.v) = Len(last.answer.entries)
         /\ \A i \in DOMAIN last.answer.entries :
              LET entry == last.answer.entries[i]
              IN /\ Cached(cache, entry.path)
                 /\ NodeOfEntry(NodeAt(cache, entry.path), entry)
                 /\ last.out.v[i].is_dir = entry.is_dir
                 /\ last.out.v[i].size = (IF entry.is_dir THEN 0 ELSE entry.size)
    /\ ~last.answer.ok => (last.out.v = << >> /\ cache = last.pre)

\* a cached directory was listed and a file in it, not cached before, is cached
C8_Witness ==
  /\ ListedDir
  /\ Cached(last.pre, last.path)
  /\ last.answer.ok
  /\ \E j \in DOMAIN last.answer.entries :
       /\ ~last.answer.entries[j].is_dir
       /\ last.answer.entries[j].size > 0
       /\ ~Cached(last.pre, last.answer.entries[j].path)
       /\ NodeAt(cache, last.answer.entries[j].path).size > 0

GotMetadata == last.op = "metadata"

\* the metadata view of a node
ViewOf(view, node) ==
  /\ view.is_dir = IsDirectory(node)
  /\ view.size = (IF IsDirectory(node) THEN 0 ELSE node.size)

\* C9: get_metadata of a cached path returns the cached node's metadata with
\* no backend call; of a path that is not cached it calls stat once, and on
\* success the node is cached and its metadata returned, on failure the call
\* fails NotFound and the cache is unchanged.
C9_MetadataHitOrStat ==
  GotMetadata =>
    /\ Cached(last.pre, last.path) =>
         /\ last.calls = << >>
         /\ cache = last.pre
         /\ last.out.res = "Ok"
         /\ ViewOf(last.out.entry, NodeAt(last.pre, last.path))
    /\ ~Cached(last.pre, last.path) =>
         /\ last.calls = << Call("stat", last.path) >>
         /\ last.answer.ok =>
              /\ Cached(cache, last.path)
              /\ NodeOfEntry(NodeAt(cache, last.path), last.answer.entry)
              /\ last.out.res = "Ok"
              /\ ViewOf(last.out.entry, NodeAt(cache, last.path))
         /\ ~last.answer.ok =>
              (last.out.res = "NotFound" /\ cache = last.pre)

\* the metadata of a cached file that is not empty was asked for
C9_Witness ==
  /\ GotMetadata
  /\ Cached(last.pre, last.path)
  /\ IsFile(NodeAt(last.pre, last.path))
  /\ last.out.res = "Ok"
  /\ last.out.entry.size > 0
  /\ last.calls = << >>

(***************************************************************************)
(* Properties of the mutating calls and of the open file.                  *)
(***************************************************************************)
\* the recorded call made one backend call and the backend failed it
OneCallFailed ==
  /\ last.op \in { "create_dir", "remove_dir", "remove_file",
                   "rename", "copy", "flush" }
  /\ last.calls # << >>
  /\ ~last.answer.ok

Wrote == last.op \in { "write_bytes", "write_buf" }

\* the recorded call is a write and the backend failed one of its blocks
SomeWriteFailed ==
  /\ Wrote
  /\ \E i \in DOMAIN last.answers : ~last.answers[i].ok

\* C7: when the backend call of create_directory (its checks passed),
\* remove_directory, remove_file, rename, copy, flush or write fails, the
\* operation returns success and the cache is as it was before the call.
C7_BackendFailureSwallowed ==
  (OneCallFailed \/ SomeWriteFailed) =>
    (last.out.res = "Ok" /\ cache = last.pre)

\* the backend failed the move of a cached path
C7_Witness ==
  /\ last.op = "rename"
  /\ ~last.answer.ok
  /\ Cached(last.pre, last.from)
  /\ last.from # last.to
  /\ last.out.res = "Ok"

\* the file a block of a write starts from
BeforeBlock(i) == IF i = 1 THEN last.before ELSE last.trail[i - 1]

\* C10: each block of a write makes one backend write at the file's
\* position, which with append is first moved to the file's size; after the
\* block the size is that offset plus the block's length and the position
\* is the size, whether or not the backend write succeeded.
C10_WriteSizeInvariant ==
  Wrote =>
    /\ Len(last.calls) = Len(last.chunks)
    /\ Len(last.trail) = Len(last.chunks)
    /\ \A i \in DOMAIN last.chunks :
         LET offset == IF BeforeBlock(i).append THEN BeforeBlock(i).size
                       ELSE BeforeBlock(i).pos
         IN /\ last.calls[i].fn = "write"
            /\ last.calls[i].offset = offset
            /\ last.calls[i].len = last.chunks[i]
            /\ last.trail[i].size = offset + last.chunks[i]
            /\ last.trail[i].pos = last.trail[i].size
    /\ last.chunks # << >> => files[last.h] = last.trail[Len(last.trail)]
    /\ last.chunks = << >> => files[last.h] = last.before

\* a chunked write of two blocks on an appending file whose position was not
\* its size, the backend failing the first block
C10_Witness ==
  /\ last.op = "write_buf"
  /\ Len(last.chunks) = 2
  /\ last.before.append
  /\ last.before.pos # last.before.size
  /\ ~last.answers[1].ok
  /\ files[last.h].size = last.before.size + last.chunks[1] + last.chunks[2]

(***************************************************************************)
(* Properties of the open file: seek, read and flush.                      *)
(***************************************************************************)
Sought == last.op = "seek"

\* the base a seek counts from
SeekBase == IF last.pos.from = "Current" THEN last.before.pos
            ELSE IF last.pos.from = "End" THEN last.before.size ELSE 0

\* C11: seek from Start(o) sets the position to o whatever the size; from
\* Current(o) and End(o) the base is the position and the size; a negative
\* o whose magnitude exceeds the base fails InvalidInput and leaves the
\* position; otherwise the position becomes base + o, which is returned.
\* seek changes nothing but the position, not the cache, and calls no backend.
C11_SeekPosition ==
  Sought =>
    /\ IF last.pos.from # "Start" /\ last.pos.pos < 0 /\ -last.pos.pos > SeekBase
         THEN /\ last.out.res = "InvalidInput"
              /\ files[last.h] = last.before
         ELSE /\ last.out = [ res |-> "Ok", pos |-> SeekBase + last.pos.pos ]
              /\ files[last.h] =
                   [ last.before EXCEPT !.pos = SeekBase + last.pos.pos ]
    /\ cache = last.pre
    /\ last.calls = << >>

\* a seek back from the position by more than the position, though not by
\* more than the size
C11_Witness ==
  /\ Sought
  /\ last.pos.from = "Current"
  /\ last.pos.pos < 0
  /\ -last.pos.pos > last.before.pos
  /\ -last.pos.pos <= last.before.size
  /\ last.out.res = "InvalidInput"

\* C12: read(count) makes one backend read at the position before the call
\* and moves the position by count, whatever the backend returned; a failed
\* backend read gives GeneralFailure; the size and the cache are unchanged.
C12_ReadAdvancesByCount ==
  last.op = "read_bytes" =>
    /\ last.calls = << [ fn |-> "read", path |-> last.before.path,
                         offset |-> last.before.pos, count |-> last.count ] >>
    /\ files[last.h] =
         [ last.before EXCEPT !.pos = last.before.pos + last.count ]
    /\ ~last.answer.ok => last.out.res = "GeneralFailure"
    /\ last.answer.ok => last.out.res = "Ok"
    /\ cache = last.pre

\* a read the backend answered short
C12_Witness ==
  /\ last.op = "read_bytes"
  /\ last.answer.ok
  /\ last.answer.len < last.count
  /\ files[last.h].pos = last.before.pos + last.count

\* C13: flush makes one backend flush for the file's path; when it succeeds
\* the cache holds for that path a File node of the file's size, whatever
\* node was cached there, and every other key is as before; when it fails
\* the cache is unchanged; the call returns success and the file is unchanged.
C13_FlushCachesSize ==
  last.op = "flush" =>
    /\ last.calls = << Call("flush", last.before.path) >>
    /\ last.answer.ok =>
         /\ Cached(cache, last.before.path)
         /\ IsFile(NodeAt(cache, last.before.path))
         /\ NodeAt(cache, last.before.path).size = last.before.size
         /\ \A k \in (DOMAIN cache \cup DOMAIN last.pre) \ { last.before.path } :
              k \in DOMAIN cache /\ k \in DOMAIN last.pre /\ cache[k] = last.pre[k]
    /\ ~last.answer.ok => cache = last.pre
    /\ last.out.res = "Ok"
    /\ files[last.h] = last.before

\* a successful flush on a path cached as a directory, by a file that has
\* written
C13_Witness ==
  /\ last.op = "flush"
  /\ last.answer.ok
  /\ Cached(last.pre, last.before.path)
  /\ IsDirectory(NodeAt(last.pre, last.before.path))
  /\ last.before.size > 0
  /\ NodeAt(cache, last.before.path).size = last.before.size

(***************************************************************************)
(* Properties of the dead properties.                                      *)
(***************************************************************************)
Patched == last.op = "patch_props"

PatchKey(i) == prop_key(last.patch[i].prop.namespace, last.patch[i].prop.name)

\* the changes of the recorded patch that name the key
Touching(key) == { i \in DOMAIN last.patch : PatchKey(i) = key }

Latest(S) == CHOOSE i \in S : \A j \in S : j <= i

\* the recorded patch applied in order to a property map, key by key: the
\* last change of a key decides, a key no change names is as before
PatchedKeys(props) ==
  { k \in DOMAIN props : Touching(k) = {} } \cup
  { PatchKey(i) : i \in { j \in DOMAIN last.patch :
                             j = Latest(Touching(PatchKey(j))) /\ last.patch[j].set } }

PatchedValue(props, k) ==
  IF Touching(k) = {} THEN props[k] ELSE last.patch[Latest(Touching(k))].prop

\* C14: set_properties on a cached path reports OK for every change, in the
\* order given, the removal of a key that is not set included; the cached
\* node then holds the former property map with the changes applied in
\* order, its variant and size as before; removing a key twice leaves what
\* removing it once leaves.  On a path that is not cached it fails NotFound
\* and the cache is unchanged.
C14_PatchApplied ==
  Patched =>
    IF Cached(last.pre, last.path)
      THEN LET old == NodeAt(last.pre, last.path)
               new == NodeAt(cache, last.path)
           IN /\ last.out.res = "Ok"
              /\ last.out.v = [ i \in DOMAIN last.patch |->
                                  [ status |-> "OK",
                                    prop |-> clone_prop(last.patch[i].prop) ] ]
              /\ DOMAIN cache = DOMAIN last.pre
              /\ \A k \in DOMAIN cache \ { KeyOf(last.path) } : cache[k] = last.pre[k]
              /\ new.tag = old.tag
              /\ IsFile(old) => new.size = old.size
              /\ DOMAIN new.props = PatchedKeys(old.props)
              /\ \A k \in DOMAIN new.props : new.props[k] = PatchedValue(old.props, k)
              /\ (Len(last.patch) = 2 /\ ~last.patch[1].set /\ ~last.patch[2].set
                   /\ PatchKey(1) = PatchKey(2)) =>
                   cache = patch_props_body(last.pre, last.path,
                                            << last.patch[1] >>).cache
      ELSE /\ last.out.res = "NotFound"
           /\ cache = last.pre

\* a patch on a cached file that removes a key that was not set and then
\* sets another key over its former value
C14_Witness ==
  /\ Patched
  /\ Cached(last.pre, last.path)
  /\ Len(last.patch) = 2
  /\ ~last.patch[1].set
  /\ PatchKey(1) \notin DOMAIN NodeAt(last.pre, last.path).props
  /\ last.patch[2].set
  /\ PatchKey(2) \in DOMAIN NodeAt(last.pre, last.path).props
  /\ NodeAt(last.pre, last.path).props[PatchKey(2)] # last.patch[2].prop
  /\ NodeAt(cache, last.path).props[PatchKey(2)] = last.patch[2].prop
  /\ last.out.res = "Ok"

(***************************************************************************)
(* Properties of the normalizers.                                          *)
(***************************************************************************)
\* the normal form of a path: the root is itself, any other path loses one
\* trailing slash if it has one
NormalForm(path) ==
  IF path = Root THEN Root
  ELSE IF ends_with_slash(path) THEN pop(path) ELSE path

\* C15: the cache key normalizer and the backend path normalizer both take
\* one trailing slash off a path that is not the root, leave a path without
\* a trailing slash, and leave "/" as "/", so that the root's cache key is "/".
C15_NormalizersAgree ==
  last.op = "normalize" =>
    /\ last.hash = NormalForm(last.path)
    /\ last.api = NormalForm(last.path)

(***************************************************************************)
(* The variant of a cached node.                                           *)
(***************************************************************************)
\* C16: over the operations of the adapter and of the open files, no step
\* takes a cache key from a Directory node to a File node or back; a key
\* changes variant only by way of a state in which it is not cached.
C16_VariantNeverChangesInPlace ==
  [][ \A k \in DOMAIN cache \cap DOMAIN cache' : cache'[k].tag = cache[k].tag ]_vars

(***************************************************************************)
(* Properties of the cache's lock.                                         *)
(***************************************************************************)
Writing(t) == inside(t) /\ ~is_read(threads[t].call)

Reading(t) == inside(t) /\ is_read(threads[t].call)

\* C17: while a write of the cache (insert, remove, mv_vals, cp_vals) holds
\* the cache, no other operation of the cache, read or write, is inside it.
C17_WriteExcludesAll ==
  \A t \in Threads : Writing(t) => \A u \in Threads \ { t } : ~inside(u)

\* a move that has re-keyed one of its two keys while another thread waits
\* for the cache
C17_Witness ==
  \E t \in Threads, u \in Threads :
    /\ Writing(t)
    /\ threads[t].call.fn = "mv_vals"
    /\ Len(threads[t].order) = 2
    /\ Len(threads[t].todo) = 1
    /\ cache # cache_steps(cache, threads[t].call, threads[t].todo)
    /\ threads[u].pc = "lock"

\* C18: a lookup of the cache (contains, get) is not kept out by another
\* lookup: a lookup that cannot enter is waiting for a write.
C18_ReadersShareCache ==
  \A t \in Threads :
    (threads[t].pc = "lock" /\ is_read(threads[t].call) /\ ~can_lock(t)) =>
      \E u \in Threads \ { t } : Writing(u)

(***************************************************************************)
(* The truncate flag over the life of an open file.                        *)
(***************************************************************************)
\* C19: over the life of an open file truncate = TRUE is passed to the
\* backend's write at most once, by the first write call the file makes and
\* only if it was opened with truncate: the file holds truncate as the
\* options of open gave it, a write call passes the file's truncate, the
\* first block of a write clears it, and once clear it stays clear for as
\* long as the file is held.
C19_TruncateOnce ==
  /\ [] ( (Opened /\ last.out.res = "Ok") =>
            last.out.file.truncate = last.options.truncate )
  /\ [] ( Wrote =>
            /\ \A i \in DOMAIN last.calls :
                 last.calls[i].truncate = (i = 1 /\ last.before.truncate)
            /\ last.calls # << >> => ~files[last.h].truncate )
  /\ [][ \A h \in Handles :
           (files[h] # NoFile /\ files'[h] # NoFile /\ ~files[h].truncate)
             => ~files'[h].truncate ]_vars

\* a chunked write of two blocks by a file opened with truncate that has
\* not written yet
C19_Witness ==
  /\ last.op = "write_buf"
  /\ Len(last.calls) = 2
  /\ last.before.truncate
  /\ last.calls[1].truncate
  /\ ~last.calls[2].truncate
  /\ ~files[last.h].truncate

(***************************************************************************)
(* Two open files on one path.                                             *)
(***************************************************************************)
FileOps == { "write_bytes", "write_buf", "read_bytes", "seek", "flush",
             "file_metadata" }

\* C20: two files opened on one path keep their own position and size: an
\* operation on one leaves the other as it was, and a write, read or seek
\* leaves the cache; after a successful flush the path's cache entry holds
\* the size of the file that flushed, so that of two flushes the later decides.
C20_HandlesIndependent ==
  /\ [][ (last'.op \in FileOps) =>
           \A g \in Handles \ { last'.h } : files'[g] = files[g] ]_vars
  /\ [] ( last.op \in { "write_bytes", "write_buf", "read_bytes", "seek" } =>
            cache = last.pre )
  /\ [] ( (last.op = "flush" /\ last.answer.ok) =>
            NodeAt(cache, last.before.path) = FileNode(NoProps, files[last.h].size) )

\* two files held on one path with different sizes; the cache held the size
\* of the one and the other has now flushed
C20_Witness ==
  \E h \in Handles, g \in Handles :
    /\ h # g
    /\ files[h] # NoFile
    /\ files[g] # NoFile
    /\ files[h].path = files[g].path
    /\ files[h].size # files[g].size
    /\ last.op = "flush"
    /\ last.h = h
    /\ last.answer.ok
    /\ Cached(last.pre, files[g].path)
    /\ NodeAt(last.pre, files[g].path) = FileNode(NoProps, files[g].size)
    /\ files[g].size > 0
    /\ NodeAt(cache, files[h].path).size = files[h].size

(***************************************************************************)
(* The metadata of an open file.                                           *)
(***************************************************************************)
\* C21: metadata() on an open file answers from the cache entry of the
\* file's path, not from the file's own size: it fails NotFound when the
\* path is not cached and otherwise gives the view of the cached node,
\* changing nothing; asked right after a write it gives what it gave before
\* the write, and asked right after a successful flush of the file it gives
\* the file's size.
C21_FileMetadataFromCache ==
  /\ last.op = "file_metadata" =>
       /\ IF Cached(last.pre, last.before.path)
            THEN /\ last.out.res = "Ok"
                 /\ ViewOf(last.out.entry, NodeAt(last.pre, last.before.path))
            ELSE last.out = [ res |-> "NotFound" ]
       /\ cache = last.pre
       /\ files[last.h] = last.before
       /\ last.calls = << >>
  /\ Wrote =>
       file_metadata_body(cache, files[last.h]) =
         file_metadata_body(last.pre, last.before)
  /\ (last.op = "flush" /\ last.answer.ok) =>
       LET asked == file_metadata_body(cache, files[last.h])
       IN /\ asked.res = "Ok"
          /\ ~asked.entry.is_dir
          /\ asked.entry.size = files[last.h].size

\* metadata asked by a file that has written past the cached size and has
\* not flushed
C21_Witness ==
  /\ last.op = "file_metadata"
  /\ Cached(cache, last.before.path)
  /\ IsFile(NodeAt(cache, last.before.path))
  /\ last.before.size > NodeAt(cache, last.before.path).size
  /\ last.out.res = "Ok"
  /\ last.out.entry.size = NodeAt(cache, last.before.path).size

(***************************************************************************)
(* What a remove leaves in the cache.                                      *)
(***************************************************************************)
Removed == last.op \in { "remove_dir", "remove_file" }

\* the cached keys below a path
Descendants(c, path) ==
  { k \in DOMAIN c : starts_with(k, add_slash(KeyOf(path))) }

\* C22: when the backend remove succeeds, remove_directory and remove_file
\* take exactly the key of the path out of the cache; every other key keeps
\* its node, the keys below the path included, so that get_metadata of a
\* cached descendant is still answered from the cache with no backend call.
C22_RemoveOnlyOwnKey ==
  (Removed /\ last.answer.ok) =>
    /\ DOMAIN cache = DOMAIN last.pre \ { KeyOf(last.path) }
    /\ \A k \in DOMAIN cache : cache[k] = last.pre[k]
    /\ \A k \in Descendants(last.pre, last.path) :
         \A answer \in StatAnswers :
           LET asked == metadata_body(cache, k, answer)
           IN /\ asked.calls = << >>
              /\ asked.out.res = "Ok"
              /\ ViewOf(asked.out.entry, last.pre[k])
              /\ asked.cache = cache

\* a cached directory is removed while a file below it is cached
C22_Witness ==
  /\ last.op = "remove_dir"
  /\ last.answer.ok
  /\ Cached(last.pre, last.path)
  /\ IsDirectory(NodeAt(last.pre, last.path))
  /\ ~Cached(cache, last.path)
  /\ \E k \in Descendants(last.pre, last.path) :
       k \in DOMAIN cache /\ IsFile(cache[k])

(***************************************************************************)
(* How long a dead property lasts.                                         *)
(***************************************************************************)
\* the properties get_prop may be asked for
AskedProps == { clone_prop(p) : p \in DavProps }

\* C23: a property that get_prop returns for a cached path is returned, with
\* the same value, after every operation other than set_properties that
\* leaves the path's key in the cache: a listing of the parent directory, a
\* successful flush of a file open on the path, get_metadata.
C23_PropertyKept ==
  [][ \A k \in DOMAIN cache \cap DOMAIN cache' : \A prop \in AskedProps :
        (last'.op # "patch_props" /\ get_prop_body(cache, k, prop).res = "Ok")
          => get_prop_body(cache', k, prop) = get_prop_body(cache, k, prop) ]_vars

(***************************************************************************)
(* set_properties beside other requests on the same path.                  *)
(***************************************************************************)
\* the thread has finished a patch that found its path cached
PatchedBy(t) ==
  /\ threads[t].pc = "done"
  /\ threads[t].op = "patch_props"
  /\ threads[t].res = "Ok"

\* the thread has finished a remove that the backend accepted
RemovedBy(t) ==
  /\ threads[t].pc = "done"
  /\ threads[t].op = "remove_file"
  /\ threads[t].answer.ok

ChangeOf(t) == threads[t].patch[1]

ChangeKey(t) == prop_key(ChangeOf(t).prop.namespace, ChangeOf(t).prop.name)

\* the change of the thread's patch shows in the cached node
ChangePresent(t) ==
  /\ Cached(cache, threads[t].path)
  /\ IF ChangeOf(t).set
       THEN /\ ChangeKey(t) \in DOMAIN NodeAt(cache, threads[t].path).props
            /\ NodeAt(cache, threads[t].path).props[ChangeKey(t)] = ChangeOf(t).prop
       ELSE ChangeKey(t) \notin DOMAIN NodeAt(cache, threads[t].path).props

\* C24: set_properties is atomic beside the other updates of its path: when
\* two patches of one cached path that touch different keys have both
\* finished, both changes are in the cached node; and when a patch that
\* found the path cached and a successful remove of the path have both
\* finished, the path is not cached.
C24_PatchAtomic ==
  \A t \in Threads : \A u \in Threads \ { t } :
    /\ (PatchedBy(t) /\ PatchedBy(u) /\ threads[t].path = threads[u].path
         /\ ChangeKey(t) # ChangeKey(u))
          => (ChangePresent(t) /\ ChangePresent(u))
    /\ (PatchedBy(t) /\ RemovedBy(u) /\ threads[t].path = threads[u].path)
          => ~Cached(cache, threads[t].path)

(***************************************************************************)
(* The cached size and the backend's file.                                 *)
(***************************************************************************)
\* C25: for one file opened on a cached path, the backend accepting every
\* call and nothing else touching the path, after any seeks and writes the
\* size that a successful flush puts in the cache is the length of the file
\* the backend holds.
C25_FlushedSizeIsStoredLength ==
  (last.op = "flush" /\ last.answer.ok /\ last.before.path \in DOMAIN store) =>
    /\ Cached(cache, last.before.path)
    /\ IsFile(NodeAt(cache, last.before.path))
    /\ NodeAt(cache, last.before.path).size = store[last.before.path]

====
